---- MODULE Spec2Model ----
(***************************************************************************)
(* A model of the zuck duration library: the Duration value with its      *)
(* normalization and scalar conversions (src/src/duration.rs), the        *)
(* checked accumulator (src/src/util.rs), the unit tables                  *)
(* (src/src/units.rs) and the text parser (src/src/formatter.rs).          *)
(*                                                                         *)
(* The program computes in u64 and u128.  TLC's integers are 32 bits wide, *)
(* so an unsigned integer of the program is a sequence of base-1000 limbs, *)
(* least significant limb first, without leading zero limbs: 0 is << >>,  *)
(* 1_000 is <<0, 1>> and u64::MAX = 18_446_744_073_709_551_615 is         *)
(* <<615, 551, 709, 73, 744, 446, 18>>.  Num(<<18, 446, ...>>) builds a    *)
(* number from the groups of a Rust literal written with underscores.     *)
(***************************************************************************)
EXTENDS Integers, Sequences, FiniteSets, TLC

----------------------------------------------------------------------------
(* Unsigned integers of arbitrary width as base-1000 limb sequences.       *)

RECURSIVE Norm(_)
Norm(a) ==
    IF a = << >> THEN << >>
    ELSE IF a[Len(a)] = 0 THEN Norm(SubSeq(a, 1, Len(a) - 1))
    ELSE a

RECURSIVE Reverse(_)
Reverse(s) ==
    IF s = << >> THEN << >> ELSE Append(Reverse(Tail(s)), Head(s))

\* The number written as the groups of three decimal digits g[1]_g[2]_...
Num(groups) ==
    Norm(Reverse(groups))

\* A natural number small enough for TLC (below 2^31) as limbs.
N(n) ==
    Norm(<<n % 1000, (n \div 1000) % 1000, (n \div 1000000) % 1000,
           n \div 1000000000>>)

Zero ==
    << >>

Limb(a, i) ==
    IF i >= 1 /\ i <= Len(a) THEN a[i] ELSE 0

\* -1, 0, 1 as a is below, equal to, above b.
RECURSIVE CmpFrom(_, _, _)
CmpFrom(a, b, i) ==
    IF i = 0 THEN 0
    ELSE IF a[i] < b[i] THEN -1
    ELSE IF a[i] > b[i] THEN 1
    ELSE CmpFrom(a, b, i - 1)

Cmp(a, b) ==
    IF Len(a) < Len(b) THEN -1
    ELSE IF Len(a) > Len(b) THEN 1
    ELSE CmpFrom(a, b, Len(a))

Lt(a, b) ==
    Cmp(a, b) = -1

Le(a, b) ==
    Cmp(a, b) # 1

Ge(a, b) ==
    Cmp(a, b) # -1

RECURSIVE AddC(_, _, _)
AddC(a, b, c) ==
    IF a = << >> /\ b = << >> THEN (IF c = 0 THEN << >> ELSE <<c>>)
    ELSE LET x == Limb(a, 1) + Limb(b, 1) + c
             ra == IF a = << >> THEN << >> ELSE Tail(a)
             rb == IF b = << >> THEN << >> ELSE Tail(b)
         IN  <<x % 1000>> \o AddC(ra, rb, x \div 1000)

Add(a, b) ==
    AddC(a, b, 0)

\* a - b for a >= b.
RECURSIVE SubB(_, _, _)
SubB(a, b, c) ==
    IF a = << >> THEN << >>
    ELSE LET x == a[1] - Limb(b, 1) - c
             rb == IF b = << >> THEN << >> ELSE Tail(b)
         IN  <<IF x < 0 THEN x + 1000 ELSE x>>
                 \o SubB(Tail(a), rb, IF x < 0 THEN 1 ELSE 0)

Sub(a, b) ==
    Norm(SubB(a, b, 0))

\* a * k for a limb-sized k (0 <= k < 1000).
RECURSIVE MulLimbC(_, _, _)
MulLimbC(a, k, c) ==
    IF a = << >> THEN (IF c = 0 THEN << >> ELSE <<c>>)
    ELSE LET x == a[1] * k + c
         IN  <<x % 1000>> \o MulLimbC(Tail(a), k, x \div 1000)

MulLimb(a, k) ==
    Norm(MulLimbC(a, k, 0))

\* a * 1000
Shift(a) ==
    IF a = << >> THEN << >> ELSE <<0>> \o a

\* Schoolbook multiplication, most significant limb of b first: acc is the
\* product of a and the limbs of b above i.  (The test on Len(nxt) makes TLC
\* evaluate the step before it descends, which keeps its stack shallow.)
RECURSIVE MulFrom(_, _, _, _)
MulFrom(a, b, i, acc) ==
    IF i = 0 THEN acc
    ELSE LET nxt == Add(MulLimb(a, b[i]), Shift(acc))
         IN  IF Len(nxt) >= 0 THEN MulFrom(a, b, i - 1, nxt) ELSE acc

Mul(a, b) ==
    MulFrom(a, b, Len(b), << >>)

\* The value of a number known to be below 10^9.
ToInt(a) ==
    Limb(a, 1) + 1000 * Limb(a, 2) + 1000000 * Limb(a, 3)

\* The largest q with (q + 1) * b > r, counted up from an estimate q <= r / b.
RECURSIVE RaiseDigit(_, _, _)
RaiseDigit(r, b, q) ==
    IF Le(MulLimb(b, q + 1), r) THEN RaiseDigit(r, b, q + 1) ELSE q

\* r \div b for b > 0 and r < 1000 * b: one digit (limb) of a long division.
QuotDigit(r, b) ==
    IF Lt(r, b) THEN 0
    ELSE IF Len(b) <= 2 THEN ToInt(r) \div ToInt(b)
    ELSE LET n  == Len(b)
             bt == b[n] * 1000 + b[n - 1]
             rt == Limb(r, n + 1) * 1000000 + Limb(r, n) * 1000 + Limb(r, n - 1)
         IN  RaiseDigit(r, b, rt \div (bt + 1))

\* Long division, most significant limb of a first: at limb i the quotient of
\* the limbs above it is q and their remainder r.  [q |-> a \div b, r |-> a % b].
\* (The test on Len makes TLC evaluate the step before it descends.)
RECURSIVE DivModFrom(_, _, _, _, _)
DivModFrom(a, b, i, q, r) ==
    IF i = 0 THEN [q |-> q, r |-> r]
    ELSE LET cur == Norm(<<a[i]>> \o r)
             dg  == QuotDigit(cur, b)
             nq  == Norm(<<dg>> \o q)
             nr  == Sub(cur, MulLimb(b, dg))
         IN  IF Len(nq) >= 0 /\ Len(nr) >= 0
             THEN DivModFrom(a, b, i - 1, nq, nr)
             ELSE [q |-> q, r |-> r]

DivMod(a, b) ==
    IF Lt(a, b) THEN [q |-> << >>, r |-> a]
    ELSE DivModFrom(a, b, Len(a), << >>, << >>)

Div(a, b) ==
    DivMod(a, b).q

Mod(a, b) ==
    DivMod(a, b).r

----------------------------------------------------------------------------
(* The integer types (u64 and u128) and the two builds of the crate.       *)

U64_MAX ==
    Num(<<18, 446, 744, 73, 709, 551, 615>>)

U128_MAX ==
    Num(<<340, 282, 366, 920, 938, 463, 463, 374, 607, 431, 768, 211, 455>>)

\* Results: a returned value, a typed error, or a panic of the thread.
Ok(v) ==
    [tag |-> "Ok", val |-> v]

Err(e) ==
    [tag |-> "Err", err |-> e]

Panic ==
    [tag |-> "Panic"]

\* Option<int>
Some(v) ==
    [tag |-> "Some", val |-> v]

None ==
    [tag |-> "None"]

\* `a + b` on an unsigned type with maximum max.  Its overflow panics in a
\* build with overflow checks (the dev profile) and wraps in one without (the
\* release profile): oc tells which build runs.
plus(a, b, max, oc) ==
    LET x == Add(a, b)
    IN  IF Le(x, max) THEN Ok(x)
        ELSE IF oc THEN Panic
        ELSE Ok(Mod(x, Add(max, N(1))))

\* `a * b`, likewise.
times(a, b, max, oc) ==
    LET x == Mul(a, b)
    IN  IF Le(x, max) THEN Ok(x)
        ELSE IF oc THEN Panic
        ELSE Ok(Mod(x, Add(max, N(1))))

\* `x as u64`: the low 64 bits.
as_u64(x) ==
    Mod(x, Add(U64_MAX, N(1)))

checked_mul(a, b, max) ==
    LET x == Mul(a, b) IN IF Le(x, max) THEN Some(x) ELSE None

checked_add(a, b, max) ==
    LET x == Add(a, b) IN IF Le(x, max) THEN Some(x) ELSE None

----------------------------------------------------------------------------
(* units.rs: the two constant tables.                                      *)

S_SECOND ==
    N(1)

S_MINUTE ==
    Mul(S_SECOND, N(60))

S_HOUR ==
    Mul(S_MINUTE, N(60))

S_DAY ==
    Mul(S_HOUR, N(24))

S_MONTH ==
    Num(<<2, 630, 16>>)

S_YEAR ==
    Num(<<31, 557, 600>>)

NS_NANOSECOND ==
    N(1)

NS_MICROSECOND ==
    Mul(NS_NANOSECOND, N(1000))

NS_MILLISECOND ==
    Mul(NS_MICROSECOND, N(1000))

NS_SECOND ==
    Mul(NS_MILLISECOND, N(1000))

NS_MINUTE ==
    Mul(NS_SECOND, N(60))

NS_HOUR ==
    Mul(NS_MINUTE, N(60))

NS_DAY ==
    Mul(NS_HOUR, N(24))

NS_MONTH ==
    Num(<<2, 630, 16, 0, 0, 0, 0>>)

NS_YEAR ==
    Num(<<31, 556, 736, 0, 0, 0, 0>>)

----------------------------------------------------------------------------
(* util.rs: the checked accumulator, CheckedU64 and CheckedU128.           *)

\* self + lhs * rhs, or None once anything overflowed.
add_mul_result(self, lhs, rhs, max) ==
    IF self.tag = "None" THEN None
    ELSE LET p == checked_mul(lhs, rhs, max)
         IN  IF p.tag = "None" THEN None
             ELSE checked_add(self.val, p.val, max)

ok_or(opt, e) ==
    IF opt.tag = "Some" THEN Ok(opt.val) ELSE Err(e)

----------------------------------------------------------------------------
(* duration.rs: the Duration value.                                        *)

Fields ==
    <<"nanoseconds", "microseconds", "milliseconds", "seconds", "minutes",
      "hours", "days", "months", "years">>

Duration_default ==
    [nanoseconds |-> Zero, microseconds |-> Zero, milliseconds |-> Zero,
     seconds |-> Zero, minutes |-> Zero, hours |-> Zero, days |-> Zero,
     months |-> Zero, years |-> Zero]

\* normalize's statements, in order: `if self.lo >= r { self.hi += self.lo / r;
\* self.lo = self.lo % r; }`.
normalize_steps ==
    <<[lo |-> "nanoseconds",  hi |-> "microseconds", r |-> N(1000)],
      [lo |-> "microseconds", hi |-> "milliseconds", r |-> N(1000)],
      [lo |-> "milliseconds", hi |-> "seconds",      r |-> N(1000)],
      [lo |-> "seconds",      hi |-> "minutes",      r |-> N(60)],
      [lo |-> "minutes",      hi |-> "hours",        r |-> N(60)],
      [lo |-> "hours",        hi |-> "days",         r |-> N(24)],
      [lo |-> "days",         hi |-> "months",       r |-> N(30)],
      [lo |-> "months",       hi |-> "years",        r |-> N(12)]>>

\* normalize_step with `self.hi = self.lo / r` for `+=`.
normalize_step_assigns(self, st, oc) ==
    IF Ge(self[st.lo], st.r)
    THEN Ok([self EXCEPT ![st.hi] = Div(self[st.lo], st.r),
                         ![st.lo] = Mod(self[st.lo], st.r)])
    ELSE Ok(self)

\* normalize_step without `self.lo = self.lo % r`.
normalize_step_keeps_lo(self, st, oc) ==
    IF Ge(self[st.lo], st.r)
    THEN LET sum == plus(self[st.hi], Div(self[st.lo], st.r), U64_MAX, oc)
         IN  IF sum.tag = "Panic" THEN Panic
             ELSE Ok([self EXCEPT ![st.hi] = sum.val])
    ELSE Ok(self)

\* One statement of normalize on self.
normalize_step(self, st, oc) ==
    IF Ge(self[st.lo], st.r)
    THEN LET sum == plus(self[st.hi], Div(self[st.lo], st.r), U64_MAX, oc)
         IN  IF sum.tag = "Panic" THEN Panic
             ELSE Ok([self EXCEPT ![st.hi] = sum.val,
                                  ![st.lo] = Mod(self[st.lo], st.r)])
    ELSE Ok(self)

\* The statements from the i-th on, on the result of those before.
RECURSIVE normalize_from(_, _, _)
normalize_from(res, i, oc) ==
    IF i > Len(normalize_steps) \/ res.tag = "Panic" THEN res
    ELSE normalize_from(normalize_step(res.val, normalize_steps[i], oc), i + 1, oc)

normalize(self, oc) ==
    normalize_from(Ok(self), 1, oc)

\* `acc + lhs * rhs` in plain (unchecked) arithmetic.
add_mul(acc, lhs, rhs, max, oc) ==
    LET p == times(lhs, rhs, max, oc)
    IN  IF p.tag = "Panic" THEN Panic
        ELSE plus(acc, p.val, max, oc)

\* The terms `self.field * constant` after the first one, in the order written.
nanosecond_terms ==
    <<[field |-> "microseconds", unit |-> NS_MICROSECOND],
      [field |-> "milliseconds", unit |-> NS_MILLISECOND],
      [field |-> "seconds",      unit |-> NS_SECOND],
      [field |-> "minutes",      unit |-> NS_MINUTE],
      [field |-> "hours",        unit |-> NS_HOUR],
      [field |-> "days",         unit |-> NS_DAY],
      [field |-> "months",       unit |-> NS_MONTH],
      [field |-> "years",        unit |-> NS_YEAR]>>

second_terms ==
    <<[field |-> "minutes", unit |-> S_MINUTE],
      [field |-> "hours",   unit |-> S_HOUR],
      [field |-> "days",    unit |-> S_DAY],
      [field |-> "months",  unit |-> S_MONTH],
      [field |-> "years",   unit |-> S_YEAR]>>

\* A sum of terms in plain arithmetic, from the i-th term on.
RECURSIVE sum_unchecked(_, _, _, _, _, _)
sum_unchecked(self, terms, i, res, max, oc) ==
    IF i > Len(terms) \/ res.tag = "Panic" THEN res
    ELSE sum_unchecked(self, terms, i + 1,
             add_mul(res.val, self[terms[i].field], terms[i].unit, max, oc), max, oc)

\* A chain of .add_mul_result(self.field, constant), from the i-th call on.
RECURSIVE sum_checked(_, _, _, _, _)
sum_checked(self, terms, i, acc, max) ==
    IF i > Len(terms) THEN acc
    ELSE sum_checked(self, terms, i + 1,
             add_mul_result(acc, self[terms[i].field], terms[i].unit, max), max)

into_nanoseconds_unchecked(self, oc) ==
    sum_unchecked(self, nanosecond_terms, 1, Ok(self.nanoseconds), U128_MAX, oc)

into_nanoseconds(self) ==
    ok_or(sum_checked(self, nanosecond_terms, 1, Some(self.nanoseconds), U128_MAX),
          "IntOverflow")

\* (self.nanoseconds / 1_000_000_000) + (self.microseconds / 1_000_000)
\*     + (self.milliseconds / 1_000) + self.seconds, in plain u64 arithmetic.
whole_seconds(self, oc) ==
    sum_unchecked(
        [a |-> Div(self.microseconds, N(1000000)),
         b |-> Div(self.milliseconds, N(1000)),
         c |-> self.seconds],
        <<[field |-> "a", unit |-> N(1)], [field |-> "b", unit |-> N(1)],
          [field |-> "c", unit |-> N(1)]>>,
        1, Ok(Div(self.nanoseconds, N(1000000000))), U64_MAX, oc)

into_seconds_unchecked(self, oc) ==
    sum_unchecked(self, second_terms, 1, whole_seconds(self, oc), U64_MAX, oc)

\* The argument of CheckedU64::from is computed before the accumulator
\* exists, in plain arithmetic.
into_seconds(self, oc) ==
    LET w == whole_seconds(self, oc)
    IN  IF w.tag = "Panic" THEN Panic
        ELSE ok_or(sum_checked(self, second_terms, 1, Some(w.val), U64_MAX),
                   "IntOverflow")

\* The divisions of from_seconds and from_nanoseconds, in order:
\* `let field = rem / unit; rem = rem % unit;`.
second_divisions ==
    <<[field |-> "years",   unit |-> S_YEAR],
      [field |-> "months",  unit |-> S_MONTH],
      [field |-> "days",    unit |-> S_DAY],
      [field |-> "hours",   unit |-> S_HOUR],
      [field |-> "minutes", unit |-> S_MINUTE]>>

nanosecond_divisions ==
    <<[field |-> "years",        unit |-> NS_YEAR],
      [field |-> "months",       unit |-> NS_MONTH],
      [field |-> "days",         unit |-> NS_DAY],
      [field |-> "hours",        unit |-> NS_HOUR],
      [field |-> "minutes",      unit |-> NS_MINUTE],
      [field |-> "seconds",      unit |-> NS_SECOND],
      [field |-> "milliseconds", unit |-> NS_MILLISECOND],
      [field |-> "microseconds", unit |-> NS_MICROSECOND]>>

\* decompose without `rem = rem % unit`: every division divides the whole total.
RECURSIVE decompose_keeps_total(_, _, _, _, _)
decompose_keeps_total(divs, i, d, rem, last) ==
    IF i > Len(divs) THEN [d EXCEPT ![last] = rem]
    ELSE LET qr == DivMod(rem, divs[i].unit)
         IN  decompose_keeps_total(divs, i + 1, [d EXCEPT ![divs[i].field] = qr.q],
                                   rem, last)

\* The divisions from the i-th on: d holds the quotients so far, rem is what
\* remains to divide; the last remainder goes to the field `last`.
RECURSIVE decompose(_, _, _, _, _)
decompose(divs, i, d, rem, last) ==
    IF i > Len(divs) THEN [d EXCEPT ![last] = rem]
    ELSE LET qr == DivMod(rem, divs[i].unit)
         IN  decompose(divs, i + 1, [d EXCEPT ![divs[i].field] = qr.q], qr.r, last)

from_seconds(s) ==
    decompose(second_divisions, 1, Duration_default, s, "seconds")

\* Every quotient and the last remainder are cast `as u64`.
from_nanoseconds(ns) ==
    LET d == decompose(nanosecond_divisions, 1, Duration_default, ns, "nanoseconds")
    IN  [f \in DOMAIN d |-> as_u64(d[f])]

\* core::time::Duration::from_nanos(nanos: u64): whole seconds and the
\* nanoseconds below a second.
RDuration_from_nanos(nanos) ==
    [secs |-> Div(nanos, N(1000000000)), nanos |-> Mod(nanos, N(1000000000))]

\* TryInto<RDuration> for Duration: `self.into_nanoseconds()?`, then
\* `RDuration::from_nanos(rdur as _)`, a cast to u64.
try_into(self) ==
    IF into_nanoseconds(self).tag = "Err" THEN into_nanoseconds(self)
    ELSE Ok(RDuration_from_nanos(as_u64(into_nanoseconds(self).val)))

----------------------------------------------------------------------------
(* units.rs and formatter.rs: characters, the alias table and the parser.  *)
(* A character is a one-letter string; a character outside ASCII is named  *)
(* by its code point ("U+03BC" is the Greek small letter mu).  A text is a *)
(* sequence of characters, indexed from 0 by the program and from 1 here.  *)

MAX_DATA_CHUNK_LENGTH ==
    32

Digits ==
    <<"0", "1", "2", "3", "4", "5", "6", "7", "8", "9">>

is_ascii_digit(c) ==
    \E i \in 1..Len(Digits) : Digits[i] = c

is_ascii_alphabetic(c) ==
    c \in {"a", "b", "c", "d", "e", "f", "g", "h", "i", "j", "k", "l", "m",
           "n", "o", "p", "q", "r", "s", "t", "u", "v", "w", "x", "y", "z",
           "A", "B", "C", "D", "E", "F", "G", "H", "I", "J", "K", "L", "M",
           "N", "O", "P", "Q", "R", "S", "T", "U", "V", "W", "X", "Y", "Z"}

\* The character the unit scan accepts besides the ASCII letters.
MU ==
    "U+03BC"

\* The arms of TimeUnit::from_str, in order, as written in the source file:
\* the first pattern of the Microsecond arm is the three characters U+00CE,
\* U+00BC, s.
TimeUnit_aliases ==
    <<[unit |-> "Nanosecond", aliases |-> {
          <<"n", "s">>,
          <<"n", "s", "e", "c">>,
          <<"n", "s", "e", "c", "s">>,
          <<"n", "a", "n", "o", "s", "e", "c">>,
          <<"n", "a", "n", "o", "s", "e", "c", "s">>,
          <<"n", "a", "n", "o", "s", "e", "c", "o", "n", "d">>,
          <<"n", "a", "n", "o", "s", "e", "c", "o", "n", "d", "s">>}],
      [unit |-> "Microsecond", aliases |-> {
          <<"U+00CE", "U+00BC", "s">>,
          <<"u", "s">>,
          <<"u", "s", "e", "c">>,
          <<"u", "s", "e", "c", "s">>,
          <<"m", "i", "c", "r", "o", "s", "e", "c">>,
          <<"m", "i", "c", "r", "o", "s", "e", "c", "s">>,
          <<"m", "i", "c", "r", "o", "s", "e", "c", "o", "n", "d">>,
          <<"m", "i", "c", "r", "o", "s", "e", "c", "o", "n", "d", "s">>}],
      [unit |-> "Millisecond", aliases |-> {
          <<"m", "s">>,
          <<"m", "s", "e", "c">>,
          <<"m", "s", "e", "c", "s">>,
          <<"m", "i", "l", "l", "i", "s", "e", "c", "o", "n", "d">>,
          <<"m", "i", "l", "l", "i", "s", "e", "c", "o", "n", "d", "s">>}],
      [unit |-> "Second", aliases |-> {
          <<"s">>,
          <<"s", "e", "c">>,
          <<"s", "e", "c", "s">>,
          <<"s", "e", "c", "o", "n", "d">>,
          <<"s", "e", "c", "o", "n", "d", "s">>}],
      [unit |-> "Minute", aliases |-> {
          <<"m">>,
          <<"m", "i", "n">>,
          <<"m", "i", "n", "s">>,
          <<"m", "i", "n", "u", "t", "e">>,
          <<"m", "i", "n", "u", "t", "e", "s">>}],
      [unit |-> "Hour", aliases |-> {
          <<"h">>,
          <<"h", "r">>,
          <<"h", "r", "s">>,
          <<"h", "o", "u", "r">>,
          <<"h", "o", "u", "r", "s">>}],
      [unit |-> "Day", aliases |-> {
          <<"d">>,
          <<"d", "a", "y">>,
          <<"d", "a", "y", "s">>}],
      [unit |-> "Week", aliases |-> {
          <<"w">>,
          <<"w", "k">>,
          <<"w", "k", "s">>,
          <<"w", "e", "e", "k">>,
          <<"w", "e", "e", "k", "s">>}],
      [unit |-> "Month", aliases |-> {
          <<"m", "o">>,
          <<"m", "o", "n", "t", "h">>,
          <<"m", "o", "n", "t", "h", "s">>}],
      [unit |-> "Year", aliases |-> {
          <<"y">>,
          <<"y", "r">>,
          <<"y", "r", "s">>,
          <<"y", "e", "a", "r">>,
          <<"y", "e", "a", "r", "s">>}]>>

\* TimeUnit::from_str: the unit of the first arm that lists s.
TimeUnit_from_str(s) ==
    IF \E i \in 1..Len(TimeUnit_aliases) : s \in TimeUnit_aliases[i].aliases
    THEN Ok(TimeUnit_aliases[
             CHOOSE i \in 1..Len(TimeUnit_aliases) :
                 /\ s \in TimeUnit_aliases[i].aliases
                 /\ \A j \in 1..(i - 1) : s \notin TimeUnit_aliases[j].aliases].unit)
    ELSE Err("UnknownUnit")

\* The field of `result` each arm of supply_matcher! is given.
supply_matcher_fields ==
    [Nanosecond |-> "nanoseconds", Microsecond |-> "microseconds",
     Millisecond |-> "milliseconds", Second |-> "seconds", Minute |-> "minutes",
     Hour |-> "hours", Month |-> "months", Year |-> "years"]

to_digit(c) ==
    (CHOOSE i \in 1..Len(Digits) : Digits[i] = c) - 1

\* u64::from_str on a non-empty text of digits, the first i read into acc:
\* the number, or the error PosOverflow once it exceeds u64::MAX.
RECURSIVE u64_from_digits(_, _, _)
u64_from_digits(s, i, acc) ==
    IF i > Len(s) THEN Ok(acc)
    ELSE LET x == Add(MulLimb(acc, 10), N(to_digit(s[i])))
         IN  IF Le(x, U64_MAX) THEN u64_from_digits(s, i + 1, x)
             ELSE Err([kind |-> "ValueParseError", error |-> "PosOverflow"])

u64_from_str(s) ==
    u64_from_digits(s, 1, Zero)

\* What one pass of the loop body comes to: on to the next pass, or a return.
\* `token` is the (unit, value) pair the pass has handed to supply_matcher!, if
\* it got that far.
Continue(i, res, week) ==
    [tag |-> "Continue", it |-> i, result |-> res, was_week_repeated |-> week,
     token |-> << >>]

Return(r) ==
    [tag |-> "Return", ret |-> r, token |-> << >>]

\* scan_value with the cap one character early.
RECURSIVE scan_value_one_short(_, _, _)
scan_value_one_short(s, firstindex, i) ==
    IF i < Len(s) /\ is_ascii_digit(s[i + 1])
    THEN IF i - firstindex = MAX_DATA_CHUNK_LENGTH - 1
         THEN Err([kind |-> "InputIsTooLong"])
         ELSE scan_value_one_short(s, firstindex, i + 1)
    ELSE Ok(i)

\* `while let Some((index, c)) = it.next_if(is_ascii_digit)`: i characters
\* are consumed, so the next one has index i.
RECURSIVE scan_value(_, _, _)
scan_value(s, firstindex, i) ==
    IF i < Len(s) /\ is_ascii_digit(s[i + 1])
    THEN IF i - firstindex = MAX_DATA_CHUNK_LENGTH THEN Err([kind |-> "InputIsTooLong"])
         ELSE scan_value(s, firstindex, i + 1)
    ELSE Ok(i)

\* `it.next().filter(|c| c != ' ').or_else(|| it.next())`: the index of the
\* character taken as the first of the unit, whatever it is.
second_char(s, i) ==
    IF i >= Len(s) THEN None
    ELSE IF s[i + 1] # " " THEN Some(i)
    ELSE IF i + 1 >= Len(s) THEN None
    ELSE Some(i + 1)

\* `while let Some((index, c)) = it.next_if(alphabetic or mu)`, with
\* unit_last_index so far.
RECURSIVE scan_unit(_, _, _, _)
scan_unit(s, unit_first_index, i, unit_last_index) ==
    IF i < Len(s) /\ (is_ascii_alphabetic(s[i + 1]) \/ s[i + 1] = MU)
    THEN IF i - unit_first_index = MAX_DATA_CHUNK_LENGTH
         THEN Err([kind |-> "InputIsTooLong"])
         ELSE scan_unit(s, unit_first_index, i + 1, i)
    ELSE Ok([it |-> i, unit_last_index |-> unit_last_index])

TimeUnitRepeated(start, end, unit, v) ==
    Err([kind |-> "TimeUnitRepeated", start |-> start, end |-> end,
         unit |-> unit, value |-> v])

\* `result.days += ...`, where sum is what the plain u64 arithmetic came to.
days_assigned(i, res, week, sum) ==
    IF sum.tag = "Panic" THEN Return(Panic)
    ELSE Continue(i, [res EXCEPT !.days = sum.val], week)

\* The match of supply_matcher! on the unit read.
supply_matcher(i, start, end, unit_t, v, res, week, oc) ==
    CASE unit_t = "Week" ->
            IF week THEN Return(TimeUnitRepeated(start, end, unit_t, v))
            ELSE days_assigned(i, res, TRUE, add_mul(res.days, v, N(7), U64_MAX, oc))
      [] unit_t = "Day" ->
            IF res.days # Zero /\ week = FALSE
            THEN Return(TimeUnitRepeated(start, end, unit_t, v))
            ELSE days_assigned(i, res, week, plus(res.days, v, U64_MAX, oc))
      [] OTHER ->
            IF res[supply_matcher_fields[unit_t]] # Zero
            THEN Return(TimeUnitRepeated(start, end, unit_t, v))
            ELSE Continue(i, [res EXCEPT ![supply_matcher_fields[unit_t]] = v], week)

\* The loop body from the unit's type on (lines 78-143).
unit_parsed(i, start, end, unit, unit_t, v, res, week, oc) ==
    IF unit_t.tag = "Err"
    THEN Return(Err([kind |-> "UnknownUnit", start |-> start, end |-> end,
                     input_unit |-> unit, value |-> v]))
    ELSE [supply_matcher(i, start, end, unit_t.val, v, res, week, oc)
              EXCEPT !.token = <<[unit |-> unit_t.val, value |-> v]>>]

\* The loop body from the end of the unit scan on: u is what the scan came to.
unit_scanned(s, unit_first_index, u, v, res, week, oc) ==
    IF u.tag = "Err" THEN Return(u)
    ELSE unit_parsed(u.val.it, unit_first_index, u.val.unit_last_index,
                     SubSeq(s, unit_first_index + 1, u.val.it),
                     TimeUnit_from_str(SubSeq(s, unit_first_index + 1, u.val.it)),
                     v, res, week, oc)

\* The loop body from the parsed value v on, i characters consumed.
value_parsed(s, i, v, res, week, oc) ==
    IF v.tag = "Err" THEN Return(v)
    ELSE IF second_char(s, i).tag = "None" THEN Return(Err([kind |-> "ValueWithoutUnit"]))
    ELSE unit_scanned(s, second_char(s, i).val,
                      scan_unit(s, second_char(s, i).val, second_char(s, i).val + 1, 0),
                      v.val, res, week, oc)

\* The loop body from the end of the value scan on: e is what the scan came to.
value_scanned(s, firstindex, e, res, week, oc) ==
    IF e.tag = "Err" THEN Return(e)
    ELSE value_parsed(s, e.val, u64_from_str(SubSeq(s, firstindex + 1, e.val)),
                      res, week, oc)

\* One pass of `while let Some((firstindex, firstc)) = it.next()`, up to the
\* whitespace skip, with firstindex characters consumed before it.
loop_body(s, firstindex, res, week, oc) ==
    IF ~is_ascii_digit(s[firstindex + 1])
    THEN Return(Err([kind |-> "NumberExpected", index |-> firstindex,
                     value |-> s[firstindex + 1]]))
    ELSE value_scanned(s, firstindex, scan_value(s, firstindex, firstindex + 1),
                       res, week, oc)

\* `it.next_if(|c| c == ' ')`
skip_whitespace(s, i) ==
    IF i < Len(s) /\ s[i + 1] = " " THEN i + 1 ELSE i

----------------------------------------------------------------------------
(* formatter.rs: Duration::format and its options.                         *)

\* The decimal text of a number, `to_string`: three digits a limb, leading
\* zeros dropped.
RECURSIVE limbs_text(_, _)
limbs_text(n, i) ==
    IF i = 0 THEN << >>
    ELSE <<Digits[(n[i] \div 100) + 1], Digits[((n[i] \div 10) % 10) + 1],
           Digits[(n[i] % 10) + 1]>> \o limbs_text(n, i - 1)

RECURSIVE strip_zeros(_)
strip_zeros(s) ==
    IF Len(s) > 1 /\ s[1] = "0" THEN strip_zeros(Tail(s)) ELSE s

Decimal(n) ==
    IF n = Zero THEN <<"0">> ELSE strip_zeros(limbs_text(n, Len(n)))

\* should_apply_plural as `input > 1`: no plural for 0.
should_apply_plural_above_one(n) ==
    Lt(N(1), n)

should_apply_plural(n) ==
    n # N(1)

OptionNames ==
    {"show_nanoseconds", "show_microseconds", "show_milliseconds", "show_seconds",
     "show_minutes", "show_hours", "show_days", "show_months", "show_years",
     "long_unit_names", "show_value_if_zero"}

FormatterOptions_default ==
    [o \in OptionNames |-> o \notin {"long_unit_names", "show_value_if_zero"}]

\* The invocations of add_if_enabled!, in order.
add_if_enabled_calls ==
    <<[cond |-> "show_years", var |-> "years", short |-> <<"y">>,
       long_singular |-> <<" ", "y", "e", "a", "r", " ">>,
       long_plural |-> <<" ", "y", "e", "a", "r", "s", " ">>],
      [cond |-> "show_months", var |-> "months", short |-> <<"m", "o">>,
       long_singular |-> <<" ", "m", "o", "n", "t", "h", " ">>,
       long_plural |-> <<" ", "m", "o", "n", "t", "h", "s", " ">>],
      [cond |-> "show_days", var |-> "days", short |-> <<"d">>,
       long_singular |-> <<" ", "d", "a", "y", " ">>,
       long_plural |-> <<" ", "d", "a", "y", "s", " ">>],
      [cond |-> "show_hours", var |-> "hours", short |-> <<"h">>,
       long_singular |-> <<" ", "h", "o", "u", "r", " ">>,
       long_plural |-> <<" ", "h", "o", "u", "r", "s", " ">>],
      [cond |-> "show_minutes", var |-> "minutes", short |-> <<"m">>,
       long_singular |-> <<" ", "m", "i", "n", "u", "t", "e", " ">>,
       long_plural |-> <<" ", "m", "i", "n", "u", "t", "e", "s", " ">>],
      [cond |-> "show_seconds", var |-> "seconds", short |-> <<"s">>,
       long_singular |-> <<" ", "s", "e", "c", "o", "n", "d", " ">>,
       long_plural |-> <<" ", "s", "e", "c", "o", "n", "d", "s", " ">>],
      [cond |-> "show_milliseconds", var |-> "milliseconds", short |-> <<"m", "s">>,
       long_singular |-> <<" ", "m", "i", "l", "l", "i", "s", "e", "c", "o", "n", "d", " ">>,
       long_plural |-> <<" ", "m", "i", "l", "l", "i", "s", "e", "c", "o", "n", "d", "s", " ">>],
      [cond |-> "show_microseconds", var |-> "microseconds", short |-> <<MU, "s">>,
       long_singular |-> <<" ", "m", "i", "c", "r", "o", "s", "e", "c", "o", "n", "d", " ">>,
       long_plural |-> <<" ", "m", "i", "c", "r", "o", "s", "e", "c", "o", "n", "d", "s", " ">>],
      [cond |-> "show_nanoseconds", var |-> "nanoseconds", short |-> <<"n", "s">>,
       long_singular |-> <<" ", "n", "a", "n", "o", "s", "e", "c", "o", "n", "d", " ">>,
       long_plural |-> <<" ", "n", "a", "n", "o", "s", "e", "c", "o", "n", "d", "s", " ">>]>>

\* What one invocation of add_if_enabled! pushes to the string.
add_if_enabled(self, options, c) ==
    IF options[c.cond] /\ ~(~options.show_value_if_zero /\ self[c.var] = Zero)
    THEN Decimal(self[c.var]) \o
             (IF options.long_unit_names
              THEN IF should_apply_plural(self[c.var]) THEN c.long_plural
                   ELSE c.long_singular
              ELSE c.short)
    ELSE << >>

\* The string after the invocations from the i-th on.
RECURSIVE pushed_from(_, _, _, _)
pushed_from(self, options, i, string) ==
    IF i > Len(add_if_enabled_calls) THEN string
    ELSE pushed_from(self, options, i + 1,
                     string \o add_if_enabled(self, options, add_if_enabled_calls[i]))

\* `string.chars().last().inspect(|ch| if ch == ' ' { string.pop(); })`
pop_last_space(string) ==
    IF string # << >> /\ string[Len(string)] = " "
    THEN SubSeq(string, 1, Len(string) - 1)
    ELSE string

\* The end of format: the fixed text for an empty string.
or_zero(string, options) ==
    IF string = << >>
    THEN IF options.long_unit_names
         THEN <<"0", " ", "n", "a", "n", "o", "s", "e", "c", "o", "n", "d", "s">>
         ELSE <<"0", "n", "s">>
    ELSE string

format(self, options) ==
    or_zero(pop_last_space(pushed_from(self, options, 1, << >>)), options)

----------------------------------------------------------------------------
(* The state: a caller of the Duration API, who takes an argument and      *)
(* passes each returned value on to a next call; and one run of the        *)
(* parser over an input text.                                              *)

VARIABLES
    overflow_checks,    \* the build: TRUE with overflow checks (dev), FALSE without (release)
    origin,             \* the caller's first argument
    value,              \* what the last call returned (the argument before any call)
    calls,              \* the names of the functions called so far
    input,              \* the parser's text, a sequence of characters
    it,                 \* the number of characters the parser's iterator has yielded
    result,             \* the parser's Duration under construction
    was_week_repeated,  \* the parser's flag
    seen,               \* the (unit, value) pairs the parser has matched, in order
    pc,                 \* where the parser is: "idle", "start", "loop", "returned", "formatted"
    ret,                \* what the parser returned
    options,            \* the FormatterOptions given to format
    formatted           \* the String format returned, once it has

vars ==
    <<overflow_checks, origin, value, calls, input, it, result,
      was_week_repeated, seen, pc, ret, options, formatted>>

caller_vars ==
    <<origin, value, calls>>

parser_vars ==
    <<input, it, result, was_week_repeated, seen, pc, ret>>

formatter_vars ==
    <<options, formatted>>

\* The number of fields a caller's Duration argument sets to a non-zero value.
MaxNonZero ==
    2

\* The number of calls a caller chains.
MaxCalls ==
    2

FieldSet ==
    {Fields[i] : i \in 1..Len(Fields)}

\* The value at which normalize folds a field into the next one (none for years).
natural_bound(f) ==
    CASE f \in {"nanoseconds", "microseconds", "milliseconds"} -> N(1000)
      [] f \in {"seconds", "minutes"} -> N(60)
      [] f = "hours" -> N(24)
      [] f = "days" -> N(30)
      [] f = "months" -> N(12)

\* The largest number of years whose nanoseconds fit in u128.
YearsThatFit ==
    Div(U128_MAX, NS_YEAR)

\* The values a caller gives a field: at the field's bound, just above it, and
\* the largest.
Samples(f) ==
    IF f = "years"
    THEN {YearsThatFit, Add(YearsThatFit, N(1)), U64_MAX}
    ELSE {natural_bound(f), Add(natural_bound(f), N(1)), U64_MAX}

AllSamples ==
    UNION {Samples(f) : f \in FieldSet}

AsDuration(g) ==
    [nanoseconds |-> g["nanoseconds"], microseconds |-> g["microseconds"],
     milliseconds |-> g["milliseconds"], seconds |-> g["seconds"],
     minutes |-> g["minutes"], hours |-> g["hours"], days |-> g["days"],
     months |-> g["months"], years |-> g["years"]]

\* The Duration of test::normalize_normal, "28mo35d49h200m150s50020ms".
ExampleDuration ==
    [Duration_default EXCEPT !.milliseconds = N(50020), !.seconds = N(150),
         !.minutes = N(200), !.hours = N(49), !.days = N(35), !.months = N(28)]

DurationInputs ==
    {ExampleDuration} \cup
    UNION {{AsDuration([f \in FieldSet |-> IF f \in S THEN g[f] ELSE Zero]) :
               g \in {h \in [S -> AllSamples] : \A f \in S : h[f] \in Samples(f)}} :
           S \in {T \in SUBSET FieldSet : Cardinality(T) <= MaxNonZero}}

\* Totals in seconds: multiples of the constants, just below and at a bound.
SecondInputs ==
    {U64_MAX, N(60000000), N(200000000), N(2000000)} \cup
    {n \in {Add(Add(Mul(a, S_YEAR), Mul(b, S_MONTH)), Add(Mul(c, S_DAY), e)) :
               a \in {Zero, N(1), Div(U64_MAX, S_YEAR)}, b \in {Zero, N(1), N(11)},
               c \in {Zero, N(29), N(30)}, e \in {Zero, N(1), N(86399)}} :
        Le(n, U64_MAX)}

\* Totals in nanoseconds.
NanosecondInputs ==
    {U128_MAX, U64_MAX, Num(<<6, 0, 0, 0>>)} \cup
    {n \in {Add(Add(Mul(a, NS_YEAR), Mul(b, NS_MONTH)), Add(Mul(c, NS_DAY), e)) :
               a \in {Zero, N(1), YearsThatFit}, b \in {Zero, N(1), N(11)},
               c \in {Zero, N(29), N(30), N(30439)}, e \in {Zero, N(1), N(999999999)}} :
        Le(n, U128_MAX)}

\* A value of the caller: its type, and the Ok / Err / Panic it came as.
Typed(type, r) ==
    [type |-> type, tag |-> r.tag, val |-> IF r.tag = "Ok" THEN r.val ELSE Zero]

IsOk(v, type) ==
    v.type = type /\ v.tag = "Ok"

ParserIdle ==
    /\ input = << >>
    /\ it = 0
    /\ result = Duration_default
    /\ was_week_repeated = FALSE
    /\ seen = << >>
    /\ pc = "idle"
    /\ ret = None

FormatterIdle ==
    /\ options = FormatterOptions_default
    /\ formatted = None

InitCaller ==
    /\ overflow_checks \in BOOLEAN
    /\ \/ \E d \in DurationInputs : origin = Typed("Duration", Ok(d))
       \/ \E n \in SecondInputs : origin = Typed("Second", Ok(n))
       \/ \E n \in NanosecondInputs : origin = Typed("Nanosecond", Ok(n))
    /\ value = origin
    /\ calls = << >>
    /\ ParserIdle
    /\ FormatterIdle

\* A call of f on the current value, of type `from`, returning type `to`.
Call(name, from, to, r) ==
    /\ Len(calls) < MaxCalls
    /\ IsOk(value, from)
    /\ value' = Typed(to, r)
    /\ calls' = Append(calls, name)
    /\ UNCHANGED <<overflow_checks, origin, parser_vars, formatter_vars>>

Normalize ==
    Call("normalize", "Duration", "Duration", normalize(value.val, overflow_checks))

IntoNanosecondsUnchecked ==
    Call("into_nanoseconds_unchecked", "Duration", "Nanosecond",
         into_nanoseconds_unchecked(value.val, overflow_checks))

IntoNanoseconds ==
    Call("into_nanoseconds", "Duration", "Nanosecond", into_nanoseconds(value.val))

IntoSecondsUnchecked ==
    Call("into_seconds_unchecked", "Duration", "Second",
         into_seconds_unchecked(value.val, overflow_checks))

IntoSeconds ==
    Call("into_seconds", "Duration", "Second", into_seconds(value.val, overflow_checks))

FromSeconds ==
    Call("from_seconds", "Second", "Duration", Ok(from_seconds(value.val)))

FromNanoseconds ==
    Call("from_nanoseconds", "Nanosecond", "Duration", Ok(from_nanoseconds(value.val)))

TryInto ==
    Call("try_into", "Duration", "RDuration", try_into(value.val))

NextCaller ==
    \/ Normalize
    \/ IntoNanosecondsUnchecked
    \/ IntoNanoseconds
    \/ IntoSecondsUnchecked
    \/ IntoSeconds
    \/ FromSeconds
    \/ FromNanoseconds
    \/ TryInto

SpecCaller ==
    InitCaller /\ [][NextCaller]_vars

----------------------------------------------------------------------------
(* One run of the parser, TryFrom<&str> for Duration, over a text.         *)

\* The number of tokens of a text put together from tokens.
MaxTokens ==
    2

Repeat(c, n) ==
    [i \in 1..n |-> c]

\* The texts of the crate's tests and comments.
TestInputs ==
    {<<"6", "y", "r", "3", "m", "o", "2", "d", "5", "h", "7", "m", "2", "0", "s", "6", "0", "0", "m", "s", "2", "0", "0", "m", "i", "c", "r", "o", "s", "e", "c", "8", "0", "n", "s">>,
     <<"3", " ", "d", "a", "y", "s", " ", "2", " ", "h", "o", "u", "r", "s", " ", "1", " ", "m", "i", "n", "u", "t", "e">>,
     <<"9", "9", "9", "9", "9", "9", "9", "9", "9", "9", "9", "9", "9", "9", "9", "9", "9", "9", "9", "9", "9", "9", "9", "9", "9", "9", "y", "r", "s">>,
     <<"2", "0", "0", "U+03BC", "s">>,
     << >>,
     <<"d", "a", "d", "2", "b", "m">>,
     <<"2", "3", "y", "a", "y", "s">>,
     <<"2", "m", "o", "3", "h", "1", "m", "o", "5", "s">>,
     <<"2", "8", "m", "o", "3", "5", "d", "4", "9", "h", "2", "0", "0", "m", "1", "5", "0", "s", "5", "0", "0", "2", "0", "m", "s">>,
     <<"2", "d", "5", "0", "s">>,
     <<"1", "2", "h", "o", "u", "r", "s", "3", "4", "m", "5", "6", "s", "e", "c", "s">>,
     <<"2", "d", "3", "h", "1", "5", "m">>,
     Repeat("9", MAX_DATA_CHUNK_LENGTH + 1) \o <<"d">>,
     <<"9">> \o Repeat("d", MAX_DATA_CHUNK_LENGTH + 1)}

\* Texts at the length cap: a value of 32 and of 33 digits that fits in u64,
\* a unit of 32 and of 33 letters, a value above u64::MAX.
LengthInputs ==
    {Repeat("0", MAX_DATA_CHUNK_LENGTH - 1) \o <<"3", "s">>,
     Repeat("0", MAX_DATA_CHUNK_LENGTH) \o <<"3", "s">>,
     <<"3">> \o Repeat("s", MAX_DATA_CHUNK_LENGTH),
     <<"3", " ">> \o Repeat("s", MAX_DATA_CHUNK_LENGTH + 1),
     Decimal(Add(U64_MAX, N(1))) \o <<"s">>,
     <<"3">>, <<"3", " ">>, <<"3", " ", " ", "s">>, <<"3", "s", " ", " ">>}

AllAliases ==
    UNION {TimeUnit_aliases[i].aliases : i \in 1..Len(TimeUnit_aliases)}

\* One value with each alias of the table.
AliasInputs ==
    {Decimal(n) \o a : n \in {N(1), N(200)}, a \in AllAliases}

\* The units of the eight arms `$tu => ...`, each twice.
RepeatedInputs ==
    {Decimal(a) \o u \o Decimal(b) \o u :
        a \in {Zero, N(5)}, b \in {Zero, N(5)},
        u \in {<<"n", "s">>, <<"u", "s">>, <<"m", "s">>, <<"s">>, <<"m">>, <<"h">>,
               <<"m", "o">>, <<"y">>}}

\* The tokens texts are put together from: a value, a unit (x is none).
TokenValues ==
    {Zero, N(3), U64_MAX}

TokenUnits ==
    {<<"n", "s">>, <<"s">>, <<"d">>, <<"w">>, <<"m", "o">>, <<"x">>}

Tokens ==
    [value : TokenValues, unit : TokenUnits]

\* The text of the tokens ts from the i-th on, each written with `gap`
\* between value and unit and after the unit.
RECURSIVE tokens_text(_, _, _)
tokens_text(ts, i, gap) ==
    IF i > Len(ts) THEN << >>
    ELSE Decimal(ts[i].value) \o gap \o ts[i].unit \o gap \o tokens_text(ts, i + 1, gap)

TokenInputs ==
    {tokens_text(ts, 1, gap) :
        ts \in UNION {[1..n -> Tokens] : n \in 1..MaxTokens},
        gap \in {<< >>, <<" ">>}}

\* Texts as format writes them: values without leading zeros, each followed
\* by the short suffix of format, the units from the largest to the smallest.
CanonicalValues ==
    {N(1), N(25), U64_MAX}

RECURSIVE canonical_text(_, _, _)
canonical_text(idx, vals, k) ==
    IF k > Len(idx) THEN << >>
    ELSE Decimal(vals[k]) \o add_if_enabled_calls[idx[k]].short
             \o canonical_text(idx, vals, k + 1)

CanonicalInputs ==
    UNION {{canonical_text(idx, vals, 1) :
               idx \in {x \in [1..n -> 1..Len(add_if_enabled_calls)] :
                            \A k \in 1..(n - 1) : x[k] < x[k + 1]},
               vals \in [1..n -> CanonicalValues]} :
           n \in 1..MaxTokens}

ParserInputs ==
    TestInputs \cup LengthInputs \cup AliasInputs \cup RepeatedInputs \cup TokenInputs
        \cup CanonicalInputs

CallerIdle ==
    /\ origin = [type |-> "None", tag |-> "None", val |-> Zero]
    /\ value = origin
    /\ calls = << >>

InitParser ==
    /\ overflow_checks \in BOOLEAN
    /\ input \in ParserInputs
    /\ it = 0
    /\ result = Duration_default
    /\ was_week_repeated = FALSE
    /\ seen = << >>
    /\ pc = "start"
    /\ ret = None
    /\ CallerIdle
    /\ FormatterIdle

\* Lines 26-34: the check for an empty text, and the locals.
TryFrom ==
    /\ pc = "start"
    /\ IF input = << >>
       THEN pc' = "returned" /\ ret' = Err([kind |-> "EmptyInput"])
       ELSE pc' = "loop" /\ ret' = ret
    /\ result' = Duration_default
    /\ was_week_repeated' = FALSE
    /\ it' = 0
    /\ UNCHANGED <<overflow_checks, caller_vars, formatter_vars, input, seen>>

\* Lines 36-147: one pass of the loop, over one value and its unit.
LoopBody ==
    /\ pc = "loop"
    /\ it < Len(input)
    /\ LET o == loop_body(input, it, result, was_week_repeated, overflow_checks)
       IN  /\ seen' = seen \o o.token
           /\ IF o.tag = "Continue"
              THEN /\ it' = skip_whitespace(input, o.it)
                   /\ result' = o.result
                   /\ was_week_repeated' = o.was_week_repeated
                   /\ UNCHANGED <<pc, ret>>
              ELSE /\ pc' = "returned"
                   /\ ret' = o.ret
                   /\ UNCHANGED <<it, result, was_week_repeated>>
    /\ UNCHANGED <<overflow_checks, caller_vars, formatter_vars, input>>

\* Line 149: the iterator is exhausted.
ReturnOk ==
    /\ pc = "loop"
    /\ it >= Len(input)
    /\ pc' = "returned"
    /\ ret' = Ok(result)
    /\ UNCHANGED <<overflow_checks, caller_vars, formatter_vars, input, it,
                   result, was_week_repeated, seen>>

\* The caller formats the Duration the parser returned (test::into_string).
FormatParsed ==
    /\ pc = "returned"
    /\ ret.tag = "Ok"
    /\ formatted' = Some(format(ret.val, options))
    /\ pc' = "formatted"
    /\ UNCHANGED <<overflow_checks, caller_vars, input, it, result,
                   was_week_repeated, seen, ret, options>>

NextParser ==
    \/ TryFrom
    \/ LoopBody
    \/ ReturnOk
    \/ FormatParsed

SpecParser ==
    InitParser /\ [][NextParser]_vars

----------------------------------------------------------------------------
(* Properties of the Duration API, checked under SpecCaller.               *)

LastCall ==
    IF calls = << >> THEN "none" ELSE calls[Len(calls)]

\* Every field but years is below the bound at which normalize folds it.
Normalized(d) ==
    \A f \in FieldSet \ {"years"} : Lt(d[f], natural_bound(f))

\* The mathematical value of first + the sum of self.field * unit over the
\* terms from the i-th on, in integers of no width.
RECURSIVE exact_sum(_, _, _, _)
exact_sum(self, terms, i, first) ==
    IF i > Len(terms) THEN first
    ELSE exact_sum(self, terms, i + 1,
                   Add(first, Mul(self[terms[i].field], terms[i].unit)))

ExactNanoseconds(d) ==
    exact_sum(d, nanosecond_terms, 1, d.nanoseconds)

\* Whole seconds of the three sub-second fields, each rounded down, plus the rest.
ExactSeconds(d) ==
    exact_sum(d, second_terms, 1,
              Add(Add(Div(d.nanoseconds, N(1000000000)), Div(d.microseconds, N(1000000))),
                  Add(Div(d.milliseconds, N(1000)), d.seconds)))

\* C1 (as claimed): whatever u64 values the nine fields hold, normalize
\* returns (it does not fail) a Duration with every field but years below its
\* bound.
C1_NormalizeTotalAndBounded ==
    LastCall = "normalize" => value.tag = "Ok" /\ Normalized(value.val)

\* C2 (as claimed): from_seconds and from_nanoseconds return a Duration that
\* is already normalized, which normalize leaves unchanged.
C2_DecompositionNormalized ==
    LastCall \in {"from_seconds", "from_nanoseconds"} =>
        /\ Normalized(value.val)
        /\ normalize(value.val, overflow_checks) = Ok(value.val)

\* C3 (as claimed): when the checked into_nanoseconds(d) succeeds,
\* from_nanoseconds of the total equals normalize(d).
C3_RoundTripIsNormalize ==
    calls = <<"into_nanoseconds", "from_nanoseconds">> =>
        normalize(origin.val, overflow_checks) = Ok(value.val)

\* C4: from_seconds then into_seconds returns Ok of the total it started from,
\* and so does from_nanoseconds then into_nanoseconds.
C4_ScalarRoundTrip ==
    /\ calls = <<"from_seconds", "into_seconds">> => value = origin
    /\ calls = <<"from_nanoseconds", "into_nanoseconds">> => value = origin

\* u128::MAX has made the round trip.
C4_Witness ==
    /\ calls = <<"from_nanoseconds", "into_nanoseconds">>
    /\ origin.val = U128_MAX
    /\ value.tag = "Ok"

\* C5 (as claimed): the checked conversions return IntOverflow when the sum
\* (or a product in it) exceeds the width, and the exact sum otherwise; they
\* neither wrap nor panic.
C5_CheckedConversions ==
    /\ calls = <<"into_seconds">> =>
          value = Typed("Second",
                        IF Le(ExactSeconds(origin.val), U64_MAX)
                        THEN Ok(ExactSeconds(origin.val)) ELSE Err("IntOverflow"))
    /\ calls = <<"into_nanoseconds">> =>
          value = Typed("Nanosecond",
                        IF Le(ExactNanoseconds(origin.val), U128_MAX)
                        THEN Ok(ExactNanoseconds(origin.val)) ELSE Err("IntOverflow"))

\* C6 (as claimed): into_nanoseconds_unchecked returns the exact sum for every
\* Duration: nothing overflows 128 bits.
C6_UncheckedIsExact ==
    calls = <<"into_nanoseconds_unchecked">> =>
        value = Typed("Nanosecond", Ok(ExactNanoseconds(origin.val)))

\* C16: normalize is idempotent: a call of normalize on what normalize
\* returned returns the same Duration.
C16_NormalizeIdempotent ==
    [][(LastCall = "normalize" /\ calls' = Append(calls, "normalize")) =>
          value' = value]_vars

\* normalize has been called on the result of a normalize that had carried.
C16_Witness ==
    /\ calls = <<"normalize", "normalize">>
    /\ value.tag = "Ok"
    /\ value.val # origin.val
    /\ value.val.years # origin.val.years

\* The nanoseconds a core::time::Duration holds.
RDuration_as_nanos(r) ==
    Add(Mul(r.secs, N(1000000000)), r.nanos)

\* C17 (as claimed): when TryInto<core::time::Duration> returns Ok(r), r holds
\* the total nanoseconds of d; a total above u64::MAX, which from_nanos cannot
\* take, is returned as an error.
C17_TryIntoPreservesTotal ==
    calls = <<"try_into">> =>
        /\ value.tag \in {"Ok", "Err"}
        /\ value.tag = "Ok" =>
              RDuration_as_nanos(value.val) = ExactNanoseconds(origin.val)
        /\ ~Le(ExactNanoseconds(origin.val), U64_MAX) => value.tag = "Err"

NothingFolded(d) ==
    /\ Lt(d.months, N(12))
    /\ Lt(ExactNanoseconds([d EXCEPT !.months = Zero, !.years = Zero]),
          Mul(N(30), NS_DAY))

\* What the three sub-second fields leave below their whole seconds, in
\* nanoseconds.
SubSecondRest(d) ==
    Add(Mod(d.nanoseconds, N(1000000000)),
        Add(Mul(Mod(d.microseconds, N(1000000)), NS_MICROSECOND),
            Mul(Mod(d.milliseconds, N(1000)), NS_MILLISECOND)))

C19_SecondsAreWholeNanoseconds ==
    (/\ calls = <<"into_seconds">>
     /\ origin.val.months = Zero
     /\ origin.val.years = Zero
     /\ value.tag = "Ok"
     /\ into_nanoseconds(origin.val).tag = "Ok") =>
        value.val = Div(into_nanoseconds(origin.val).val, NS_SECOND)

----------------------------------------------------------------------------
(* Properties of the parser, checked under SpecParser.                     *)

EightUnits ==
    DOMAIN supply_matcher_fields

\* The parser has returned TimeUnitRepeated for `unit` with value v.
RepeatedError(unit, v) ==
    /\ pc = "returned"
    /\ ret.tag = "Err"
    /\ ret.err.kind = "TimeUnitRepeated"
    /\ ret.err.unit = unit
    /\ ret.err.value = v

\* The parser has stopped in supply_matcher!, on the pair it matched last.
StoppedInMatcher ==
    /\ pc = "returned"
    /\ \/ ret.tag = "Panic"
       \/ ret.tag = "Err" /\ ret.err.kind = "TimeUnitRepeated"

\* The Duration the pairs from the i-th on add up to on top of d, in integers
\* of no width: a Week adds seven times its value to days.
RECURSIVE supplied_from(_, _, _)
supplied_from(ts, i, d) ==
    IF i > Len(ts) THEN d
    ELSE supplied_from(ts, i + 1,
             CASE ts[i].unit = "Week" ->
                      [d EXCEPT !.days = Add(@, Mul(ts[i].value, N(7)))]
               [] ts[i].unit = "Day" ->
                      [d EXCEPT !.days = Add(@, ts[i].value)]
               [] OTHER ->
                      [d EXCEPT ![supply_matcher_fields[ts[i].unit]] = Add(@, ts[i].value)])

Supplied(ts) ==
    supplied_from(ts, 1, Duration_default)

\* C7 (as claimed): when one of the eight units nanosecond ... year is matched
\* a second time, whatever the two values, the parser returns
\* TimeUnitRepeated naming the unit, with the second value.
C7_RepeatedUnitRejected ==
    \A i, j \in 1..Len(seen) :
        (i < j /\ seen[i].unit = seen[j].unit /\ seen[j].unit \in EightUnits) =>
            j = Len(seen) /\ RepeatedError(seen[j].unit, seen[j].value)

\* C8 (as claimed): the parser returns TimeUnitRepeated for Day exactly when
\* it has matched a Day after an earlier Day with no Week before it; a Day
\* matched after a Week is accepted and added to days.
C8_DayAfterDayOrWeek ==
    /\ \A j \in 1..Len(seen) :
          (/\ seen[j].unit = "Day"
           /\ \E i \in 1..(j - 1) : seen[i].unit = "Day"
           /\ \A i \in 1..(j - 1) : seen[i].unit # "Week") =>
              j = Len(seen) /\ RepeatedError("Day", seen[j].value)
    /\ (pc = "returned" /\ ret.tag = "Err" /\ ret.err.kind = "TimeUnitRepeated"
            /\ ret.err.unit = "Day") =>
          /\ \E i \in 1..(Len(seen) - 1) : seen[i].unit = "Day"
          /\ \A i \in 1..(Len(seen) - 1) : seen[i].unit # "Week"
    /\ (/\ seen # << >>
        /\ seen[Len(seen)].unit = "Day"
        /\ \E i \in 1..(Len(seen) - 1) : seen[i].unit = "Week") =>
          /\ ~StoppedInMatcher
          /\ pc = "loop" => result.days = Supplied(seen).days

\* C9 (as claimed): as long as no unit has been matched twice, the parser
\* has not stopped at a matched pair and every field holds the value supplied
\* for its unit, days holding 7 * weeks + days, in whatever order the pairs
\* came.
C9_DistinctUnitsParse ==
    (\A i, j \in 1..Len(seen) : i # j => seen[i].unit # seen[j].unit) =>
        /\ ~StoppedInMatcher
        /\ pc = "loop" => result = Supplied(seen)
        /\ (pc = "returned" /\ ret.tag = "Ok") => ret.val = Supplied(seen)

\* C10 (as claimed): the parser returns a Duration holding exactly the
\* supplied values or one of the seven typed errors; it does not panic and
\* does not wrap a value.
C10_ParsingTotal ==
    pc = "returned" =>
        /\ ret.tag \in {"Ok", "Err"}
        /\ ret.tag = "Ok" => ret.val = Supplied(seen)
        /\ ret.tag = "Err" =>
              ret.err.kind \in {"NumberExpected", "UnknownUnit", "TimeUnitRepeated",
                                "InputIsTooLong", "ValueWithoutUnit", "ValueParseError",
                                "EmptyInput"}

\* The Duration a single pair (unit, n) supplies.
Single(unit, n) ==
    Supplied(<<[unit |-> unit, value |-> n]>>)

\* C11 (as claimed): the text of a value n >= 1 followed by an alias listed
\* for a unit parses to the Duration with n in that unit's field (7 * n in
\* days for a week alias) and 0 elsewhere; and "200" followed by the micro
\* sign and s parses to microseconds = 200.
C11_EveryAliasParses ==
    pc = "returned" =>
        /\ \A i \in 1..Len(TimeUnit_aliases) :
             \A a \in TimeUnit_aliases[i].aliases :
                 \A n \in {N(1), N(200)} :
                     input = Decimal(n) \o a =>
                         ret = Ok(Single(TimeUnit_aliases[i].unit, n))
        /\ input = <<"2", "0", "0", MU, "s">> =>
               ret = Ok(Single("Microsecond", N(200)))

\* C12 (as claimed): a text of values without leading zeros, each non-zero
\* and followed by its short suffix, the units from the largest to the
\* smallest and each at most once, parses, and format with the default
\* options gives the text back.
C12_CanonicalRoundTrip ==
    (input \in CanonicalInputs \cup {<<"2", "d", "3", "h", "1", "5", "m">>}) =>
        /\ pc = "returned" => ret.tag = "Ok"
        /\ pc = "formatted" => formatted = Some(input)

\* C14 (as claimed): in an UnknownUnit and in a TimeUnitRepeated error, start
\* and end are the indices of the first and of the last character of the
\* unit's text, so start <= end and the text from start to end is the unit
\* scanned, whatever its length.
C14_UnitSpan ==
    (pc = "returned" /\ ret.tag = "Err"
        /\ ret.err.kind \in {"UnknownUnit", "TimeUnitRepeated"}) =>
        /\ ret.err.start <= ret.err.end
        /\ ret.err.end < Len(input)
        /\ ret.err.kind = "UnknownUnit" =>
              /\ SubSeq(input, ret.err.start + 1, ret.err.end + 1) = ret.err.input_unit
              /\ ret.err.end - ret.err.start + 1 = Len(ret.err.input_unit)
        /\ ret.err.kind = "TimeUnitRepeated" =>
              TimeUnit_from_str(SubSeq(input, ret.err.start + 1, ret.err.end + 1))
                  = Ok(ret.err.unit)

\* The number of characters of s after the first i that satisfy P, up to the
\* first that does not.
RunLength(s, i, P(_)) ==
    CHOOSE k \in 0..(Len(s) - i) :
        /\ \A j \in 1..k : P(s[i + j])
        /\ k = Len(s) - i \/ ~P(s[i + k + 1])

IsUnitCharacter(c) ==
    is_ascii_alphabetic(c) \/ c = MU

\* The length of the unit text that follows a value ending before index e:
\* one character, after one space if there is one, and the letters after it;
\* 0 if the text ends there.
UnitRun(s, e) ==
    IF e < Len(s) /\ s[e + 1] = " "
    THEN IF e + 1 < Len(s) THEN 1 + RunLength(s, e + 2, IsUnitCharacter) ELSE 0
    ELSE IF e < Len(s) THEN 1 + RunLength(s, e + 1, IsUnitCharacter) ELSE 0

TooLong ==
    Err([kind |-> "InputIsTooLong"])

\* C15: a pass of the loop that meets a run of more than 32 digits returns
\* InputIsTooLong without parsing the number; one that meets a value that
\* fits and then a unit text of more than 32 characters returns
\* InputIsTooLong without looking the unit up; a pass over runs of at most 32
\* does not return InputIsTooLong, and a 32-digit literal that fits in u64
\* is matched with its value.
C15_LengthCap ==
    [][(pc = "loop" /\ it < Len(input) /\ is_ascii_digit(input[it + 1])) =>
          LET digits == RunLength(input, it, is_ascii_digit)
              v == u64_from_str(SubSeq(input, it + 1, it + digits))
              unit == UnitRun(input, it + digits)
          IN  /\ digits > MAX_DATA_CHUNK_LENGTH => pc' = "returned" /\ ret' = TooLong
              /\ (digits <= MAX_DATA_CHUNK_LENGTH /\ v.tag = "Ok"
                     /\ unit > MAX_DATA_CHUNK_LENGTH) =>
                    pc' = "returned" /\ ret' = TooLong
              /\ (digits <= MAX_DATA_CHUNK_LENGTH /\ unit <= MAX_DATA_CHUNK_LENGTH) =>
                    ret' # TooLong
              /\ (digits = MAX_DATA_CHUNK_LENGTH /\ v.tag = "Ok"
                     /\ seen' # seen) =>
                    seen'[Len(seen')].value = v.val
      ]_vars

\* A literal of 32 digits, padded with zeros, has been parsed to its value.
C15_Witness ==
    /\ input = Repeat("0", MAX_DATA_CHUNK_LENGTH - 1) \o <<"3", "s">>
    /\ pc = "returned"
    /\ ret = Ok(Single("Second", N(3)))

----------------------------------------------------------------------------
(* One call of Duration::format, on any options.                           *)

AllFields(n) ==
    [nanoseconds |-> n, microseconds |-> n, milliseconds |-> n, seconds |-> n,
     minutes |-> n, hours |-> n, days |-> n, months |-> n, years |-> n]

\* The Duration of test::into_string_with_long_unit_names.
FormattedExample ==
    [nanoseconds |-> N(10), microseconds |-> N(9), milliseconds |-> N(8),
     seconds |-> N(7), minutes |-> N(6), hours |-> N(5), days |-> N(25),
     months |-> N(2), years |-> N(1)]

\* Durations to format: every field 0, 1, 2 or u64::MAX, the example, and one
\* field at 1 or at 1_000 among zeros.
FormatInputs ==
    {AllFields(Zero), AllFields(N(1)), AllFields(N(2)), AllFields(U64_MAX),
     FormattedExample} \cup
    {[Duration_default EXCEPT ![f] = n] : f \in FieldSet, n \in {N(1), N(1000)}}

InitFormat ==
    /\ overflow_checks \in BOOLEAN
    /\ \E d \in FormatInputs : origin = Typed("Duration", Ok(d))
    /\ value = origin
    /\ calls = << >>
    /\ ParserIdle
    /\ options \in [OptionNames -> BOOLEAN]
    /\ formatted = None

Format ==
    /\ calls = << >>
    /\ IsOk(value, "Duration")
    /\ formatted' = Some(format(value.val, options))
    /\ calls' = <<"format">>
    /\ UNCHANGED <<overflow_checks, origin, value, parser_vars, options>>

NextFormat ==
    Format

SpecFormat ==
    InitFormat /\ [][NextFormat]_vars

----------------------------------------------------------------------------
(* Properties of format, checked under SpecFormat.                         *)

\* The fields largest first, with the suffix and the name of each.
FormatOrder ==
    <<"years", "months", "days", "hours", "minutes", "seconds", "milliseconds",
      "microseconds", "nanoseconds">>

ShortSuffix ==
    [years |-> <<"y">>, months |-> <<"m", "o">>, days |-> <<"d">>, hours |-> <<"h">>,
     minutes |-> <<"m">>, seconds |-> <<"s">>, milliseconds |-> <<"m", "s">>,
     microseconds |-> <<MU, "s">>, nanoseconds |-> <<"n", "s">>]

LongName ==
    [years |-> <<"y", "e", "a", "r">>,
     months |-> <<"m", "o", "n", "t", "h">>,
     days |-> <<"d", "a", "y">>,
     hours |-> <<"h", "o", "u", "r">>,
     minutes |-> <<"m", "i", "n", "u", "t", "e">>,
     seconds |-> <<"s", "e", "c", "o", "n", "d">>,
     milliseconds |-> <<"m", "i", "l", "l", "i", "s", "e", "c", "o", "n", "d">>,
     microseconds |-> <<"m", "i", "c", "r", "o", "s", "e", "c", "o", "n", "d">>,
     nanoseconds |-> <<"n", "a", "n", "o", "s", "e", "c", "o", "n", "d">>]

\* The fields that get a token: shown, and non-zero unless zeros are shown.
Emitted(d, o) ==
    SelectSeq(FormatOrder,
              LAMBDA f : o["show_" \o f] /\ (d[f] # Zero \/ o.show_value_if_zero))

\* The token of a field: the value and the short suffix, or the value, a
\* space and the long name, plural unless the value is 1.
TokenOf(d, o, f) ==
    IF o.long_unit_names
    THEN Decimal(d[f]) \o <<" ">> \o LongName[f]
             \o (IF d[f] = N(1) THEN << >> ELSE <<"s">>)
    ELSE Decimal(d[f]) \o ShortSuffix[f]

\* The tokens of fs from the k-th on, a single space between two long ones.
RECURSIVE joined_from(_, _, _, _)
joined_from(d, o, fs, k) ==
    IF k > Len(fs) THEN << >>
    ELSE TokenOf(d, o, fs[k])
             \o (IF o.long_unit_names /\ k < Len(fs) THEN <<" ">> ELSE << >>)
             \o joined_from(d, o, fs, k + 1)

ExpectedText(d, o) ==
    IF Emitted(d, o) = << >>
    THEN IF o.long_unit_names
         THEN <<"0", " ">> \o LongName.nanoseconds \o <<"s">>
         ELSE <<"0">> \o ShortSuffix.nanoseconds
    ELSE joined_from(d, o, Emitted(d, o), 1)

\* C13: for every Duration and every combination of the eleven options,
\* format returns the tokens of the emitted fields in the fixed order, long
\* tokens separated by single spaces with no trailing space, and "0ns" or
\* "0 nanoseconds" when no field is emitted; the result is never empty.
C13_FormatText ==
    calls = <<"format">> =>
        /\ formatted = Some(ExpectedText(origin.val, options))
        /\ formatted.val # << >>

\* format has written long tokens, a singular one among them, with some
\* fields hidden and a zero shown.
C13_Witness ==
    /\ calls = <<"format">>
    /\ options.long_unit_names
    /\ options.show_value_if_zero
    /\ ~options.show_nanoseconds
    /\ origin.val.seconds = N(1)
    /\ origin.val.years = Zero
    /\ Len(Emitted(origin.val, options)) > 2

====
